---- MODULE Spec2Model ----
(***************************************************************************)
(* Model of the modal (vi-style) editor VimEditor and of the two shell     *)
(* callbacks it is given (handleEditorSave, handleEditorExit).             *)
(*                                                                         *)
(* A text is a sequence of one-character strings; the buffer `lines` is a  *)
(* sequence of texts.  Indices in the operators below are the 0-based      *)
(* JavaScript indices of the source; the helpers convert to TLA+ 1-based   *)
(* sequences.                                                              *)
(*                                                                         *)
(* Every handler runs inside one batched React event: values read from the *)
(* closure (`c` below: the state at the last render) stay fixed during the *)
(* handler, while functional updates setX(prev => ...) chain on the        *)
(* pending state (`st` below).                                             *)
(***************************************************************************)
EXTENDS Integers, Sequences, FiniteSets, TLC

\* ------------------------------------------------------------------------
\* Bounds of the model
\* ------------------------------------------------------------------------
MaxInitLen == 3     \* longest initialContent handed to the editor
MaxSteps == 4       \* events (keys, submits, timer callbacks) handled in one run
MaxKeySteps == 4    \* the same for the runs of SpecKeys
MaxQuitSteps == 5   \* input events in one run of SpecQuit
MaxCmdSteps == 4    \* input events in one run of SpecCmd
MaxModeSteps == 2   \* input events in one run of SpecModes
MaxSubSteps == 4    \* input events in one run of SpecSub
MaxLeaveSteps == 7  \* input events in one run of SpecLeave
MaxStubSteps == 3   \* input events in one run of SpecStub
MaxJoinSteps == 6   \* input events in one run of SpecJoin
MaxInsertSteps == 4 \* input events in one run of SpecInsert

\* ------------------------------------------------------------------------
\* JavaScript primitives
\* ------------------------------------------------------------------------
Max(a, b) == IF a > b THEN a ELSE b
Min(a, b) == IF a < b THEN a ELSE b

\* the value `undefined` when it stands where a text is expected
UNDEF == <<"undefined">>

NL == "\n"
IsWs(ch) == ch \in {" ", "\t", NL}

\* relative index of Array/String.prototype.slice and splice
RelIdx(i, n) == IF i < 0 THEN Max(n + i, 0) ELSE Min(i, n)

\* s.slice(a, b)
Slice(s, a, b) == SubSeq(s, RelIdx(a, Len(s)) + 1, RelIdx(b, Len(s)))

\* s.slice(a)
SliceFrom(s, a) == SubSeq(s, RelIdx(a, Len(s)) + 1, Len(s))

\* copy of s after s.splice(start, del, ...items)
Splice(s, start, del, items) ==
  LET n == Len(s)
      from == RelIdx(start, n)
      cnt == Max(0, Min(del, n - from))
  IN SubSeq(s, 1, from) \o items \o SubSeq(s, from + cnt + 1, n)

\* arr[i]
At(arr, i) == IF i >= 0 /\ i < Len(arr) THEN arr[i + 1] ELSE UNDEF

\* x || ''
OrEmpty(x) == IF x = UNDEF THEN <<>> ELSE x

\* arr[i]?.length || d
LenOr(arr, i, d) ==
  LET x == At(arr, i)
  IN IF x = UNDEF \/ Len(x) = 0 THEN d ELSE Len(x)

\* copy of arr after arr[i] = v (an index past the end leaves holes)
SetAt(arr, i, v) ==
  IF i < Len(arr)
    THEN [arr EXCEPT ![i + 1] = v]
    ELSE arr \o [j \in 1..(i - Len(arr)) |-> UNDEF] \o <<v>>

\* length of the match of /^\s*/
RECURSIVE LeadingWs(_)
LeadingWs(s) ==
  IF s = <<>> \/ ~IsWs(Head(s)) THEN 0 ELSE 1 + LeadingWs(Tail(s))

\* length of the match of /^\S*/
RECURSIVE LeadingNonWs(_)
LeadingNonWs(s) ==
  IF s = <<>> \/ IsWs(Head(s)) THEN 0 ELSE 1 + LeadingNonWs(Tail(s))

Reverse(s) == [i \in 1..Len(s) |-> s[Len(s) + 1 - i]]

\* s.trimStart(), s.trim()
TrimStart(s) == SubSeq(s, LeadingWs(s) + 1, Len(s))
TrimEnd(s) == SubSeq(s, 1, Len(s) - LeadingWs(Reverse(s)))
Trim(s) == TrimEnd(TrimStart(s))

\* s.startsWith(p)
StartsWith(s, p) == Len(p) <= Len(s) /\ SubSeq(s, 1, Len(p)) = p

\* s.indexOf(p, from); -1 when p does not occur at or after from
IndexOf(s, p, from) ==
  LET f == Min(Max(from, 0), Len(s))
      hits == {i \in f..(Len(s) - Len(p)) : SubSeq(s, i + 1, i + Len(p)) = p}
  IN IF hits = {} THEN -1 ELSE CHOOSE i \in hits : \A j \in hits : i <= j

\* s.lastIndexOf(p)
LastIndexOf(s, p) ==
  LET hits == {i \in 0..(Len(s) - Len(p)) : SubSeq(s, i + 1, i + Len(p)) = p}
  IN IF hits = {} THEN -1 ELSE CHOOSE i \in hits : \A j \in hits : i >= j

\* s.split(sep); sep = '' splits into the single characters
RECURSIVE Split(_, _)
Split(s, sep) ==
  IF sep = <<>> THEN [i \in 1..Len(s) |-> <<s[i]>>]
  ELSE LET i == IndexOf(s, sep, 0)
       IN IF i = -1 THEN <<s>>
          ELSE <<SubSeq(s, 1, i)>> \o Split(SubSeq(s, i + Len(sep) + 1, Len(s)), sep)

\* arr.join(sep) (undefined joins as '')
RECURSIVE Join(_, _)
Join(arr, sep) ==
  IF arr = <<>> THEN <<>>
  ELSE IF Len(arr) = 1 THEN OrEmpty(arr[1])
  ELSE OrEmpty(arr[1]) \o sep \o Join(Tail(arr), sep)

\* s.replace(old, new) with a string pattern (new holds no $ pattern)
ReplaceFirst(s, old, new) ==
  LET i == IndexOf(s, old, 0)
  IN IF i = -1 THEN s
     ELSE SubSeq(s, 1, i) \o new \o SubSeq(s, i + Len(old) + 1, Len(s))

\* s.includes(ch) for a single character
Includes(s, ch) == \E i \in 1..Len(s) : s[i] = ch

Digits == <<"0", "1", "2", "3", "4", "5", "6", "7", "8", "9">>
IsDigit(ch) == \E i \in 1..10 : Digits[i] = ch
DigitVal(ch) == (CHOOSE i \in 1..10 : Digits[i] = ch) - 1

RECURSIVE DigitsVal(_, _)
DigitsVal(s, acc) ==
  IF s = <<>> \/ ~IsDigit(Head(s)) THEN acc
  ELSE DigitsVal(Tail(s), 10 * acc + DigitVal(Head(s)))

\* parseInt(s): NaN is modelled by the pair's first component being FALSE
ParseInt(s) ==
  LET t == TrimStart(s)
      neg == t # <<>> /\ Head(t) = "-"
      u == IF t # <<>> /\ Head(t) \in {"-", "+"} THEN Tail(t) ELSE t
  IN IF u = <<>> \/ ~IsDigit(Head(u))
       THEN [ok |-> FALSE, val |-> 0]
       ELSE [ok |-> TRUE, val |-> IF neg THEN 0 - DigitsVal(u, 0) ELSE DigitsVal(u, 0)]


\* ------------------------------------------------------------------------
\* Status messages: the message text is kept as a tag, the number and the
\* text interpolated into it.   NoMsg is the empty string ''.
\* ------------------------------------------------------------------------
Msg(tag, n, text) == [tag |-> tag, n |-> n, text |-> text]
NoMsg == Msg("", 0, <<>>)

\* ------------------------------------------------------------------------
\* VimEditor: helpers.  `c` is the state captured by the handler's closure,
\* `st` the pending state the batched updates are applied to.
\* ------------------------------------------------------------------------
Pos(l, k) == [line |-> l, col |-> k]

\* showStatus(message, duration = 2000)
showStatus(st, msg, duration) ==
  [st EXCEPT !.statusMessage = msg,
             !.statusTimers = IF duration > 0 THEN @ + 1 ELSE @]

\* getContent joining the lines with blanks
getContent_Blanks(c) == Join(c.lines, <<" ">>)

\* getContent()
getContent(c) == Join(c.lines, <<NL>>)

\* clampCursor(pos, lns), with `mode` read from the closure
clampCursor(cmode, pos, lns) ==
  LET line == Max(0, Min(pos.line, Len(lns) - 1))
      maxCol == Max(0, LenOr(lns, line, 1) - 1)
      col == IF cmode = "insert"
               THEN Max(0, Min(pos.col, LenOr(lns, line, 0)))
               ELSE Max(0, Min(pos.col, maxCol))
  IN Pos(line, col)

moveLeft(c, st) ==
  [st EXCEPT !.cursor = clampCursor(c.mode, Pos(@.line, @.col - 1), c.lines)]

moveRight(c, st) ==
  [st EXCEPT !.cursor = clampCursor(c.mode, Pos(@.line, @.col + 1), c.lines)]

moveUp(c, st) ==
  [st EXCEPT !.cursor = clampCursor(c.mode, Pos(@.line - 1, @.col), c.lines)]

moveDown(c, st) ==
  [st EXCEPT !.cursor = clampCursor(c.mode, Pos(@.line + 1, @.col), c.lines)]

moveToLineStart(c, st) == [st EXCEPT !.cursor = Pos(@.line, 0)]

moveToLineEnd(c, st) ==
  [st EXCEPT !.cursor = Pos(@.line, Max(0, LenOr(c.lines, @.line, 0) - 1))]

moveToFirstNonWhitespace(c, st) ==
  LET line == OrEmpty(At(c.lines, st.cursor.line))
      col == LeadingWs(line)
  IN [st EXCEPT !.cursor = Pos(@.line, Min(col, Len(line) - 1))]

\* length of the match of /^\s*\S+\s*/ on rest, or -1 when it does not match
WordMatchLen(rest) ==
  LET ws1 == LeadingWs(rest)
      r1 == SubSeq(rest, ws1 + 1, Len(rest))
      nw == LeadingNonWs(r1)
      r2 == SubSeq(r1, nw + 1, Len(r1))
  IN IF nw = 0 THEN -1 ELSE ws1 + nw + LeadingWs(r2)

moveWordForward(c, st) ==
  LET prev == st.cursor
      line == OrEmpty(At(c.lines, prev.line))
      rest == SliceFrom(line, prev.col)
      m == WordMatchLen(rest)
  IN IF m # -1 /\ prev.col + m < Len(line)
       THEN [st EXCEPT !.cursor = Pos(prev.line, prev.col + m)]
     ELSE IF prev.line < Len(c.lines) - 1
       THEN [st EXCEPT !.cursor = Pos(prev.line + 1, 0)]
     ELSE st

\* length of the match of /\S+\s*$/ on before, or -1 when it does not match
BackMatchLen(before) ==
  LET r == Reverse(before)
      ws == LeadingWs(r)
      nw == LeadingNonWs(SubSeq(r, ws + 1, Len(r)))
  IN IF nw = 0 THEN -1 ELSE ws + nw

moveWordBackward(c, st) ==
  LET prev == st.cursor
      line == OrEmpty(At(c.lines, prev.line))
      before == Slice(line, 0, prev.col)
      m == BackMatchLen(before)
  IN IF prev.col = 0
       THEN IF prev.line > 0
              THEN [st EXCEPT !.cursor =
                      Pos(prev.line - 1, Max(0, LenOr(c.lines, prev.line - 1, 1) - 1))]
              ELSE st
     ELSE IF m # -1
       THEN [st EXCEPT !.cursor = Pos(prev.line, prev.col - m)]
     ELSE [st EXCEPT !.cursor = Pos(prev.line, 0)]

moveToTop(c, st) == [st EXCEPT !.cursor = Pos(0, 0)]

moveToBottom(c, st) == [st EXCEPT !.cursor = Pos(Len(c.lines) - 1, 0)]

\* insertChar(char); char is a text of one or (for Tab) two characters
insertChar(c, st, char) ==
  LET line == OrEmpty(At(st.lines, c.cursor.line))
  IN [st EXCEPT
        !.lines = SetAt(@, c.cursor.line,
                        Slice(line, 0, c.cursor.col) \o char \o SliceFrom(line, c.cursor.col)),
        !.cursor = Pos(@.line, @.col + 1),
        !.modified = TRUE]

insertNewLine(c, st) ==
  LET line == OrEmpty(At(st.lines, c.cursor.line))
      before == Slice(line, 0, c.cursor.col)
      after == SliceFrom(line, c.cursor.col)
  IN [st EXCEPT
        !.lines = Splice(SetAt(@, c.cursor.line, before), c.cursor.line + 1, 0, <<after>>),
        !.cursor = Pos(@.line + 1, 0),
        !.modified = TRUE]

deleteChar(c, st) ==
  LET newLines == st.lines
      line == OrEmpty(At(newLines, c.cursor.line))
  IN [st EXCEPT
        !.lines =
          IF c.cursor.col < Len(line)
            THEN SetAt(newLines, c.cursor.line,
                       Slice(line, 0, c.cursor.col) \o SliceFrom(line, c.cursor.col + 1))
          ELSE IF c.cursor.line < Len(newLines) - 1
            THEN Splice(SetAt(newLines, c.cursor.line,
                              line \o OrEmpty(At(newLines, c.cursor.line + 1))),
                        c.cursor.line + 1, 1, <<>>)
          ELSE newLines,
        !.modified = TRUE]

\* backspace putting the cursor on column 0 of the line it joins to
backspace_JoinToLineStart(c, st) ==
  IF c.cursor.col > 0
    THEN LET line == OrEmpty(At(st.lines, c.cursor.line))
         IN [st EXCEPT
               !.lines = SetAt(@, c.cursor.line,
                               Slice(line, 0, c.cursor.col - 1) \o SliceFrom(line, c.cursor.col)),
               !.cursor = Pos(@.line, @.col - 1),
               !.modified = TRUE]
  ELSE IF c.cursor.line > 0
    THEN [st EXCEPT
            !.lines = Splice(SetAt(@, c.cursor.line - 1,
                                   OrEmpty(At(@, c.cursor.line - 1))
                                     \o OrEmpty(At(@, c.cursor.line))),
                             c.cursor.line, 1, <<>>),
            !.cursor = Pos(c.cursor.line - 1, 0),
            !.modified = TRUE]
  ELSE st

backspace(c, st) ==
  IF c.cursor.col > 0
    THEN LET line == OrEmpty(At(st.lines, c.cursor.line))
         IN [st EXCEPT
               !.lines = SetAt(@, c.cursor.line,
                               Slice(line, 0, c.cursor.col - 1) \o SliceFrom(line, c.cursor.col)),
               !.cursor = Pos(@.line, @.col - 1),
               !.modified = TRUE]
  ELSE IF c.cursor.line > 0
    THEN LET prevLineLen == LenOr(c.lines, c.cursor.line - 1, 0)
         IN [st EXCEPT
               !.lines = Splice(SetAt(@, c.cursor.line - 1,
                                      OrEmpty(At(@, c.cursor.line - 1))
                                        \o OrEmpty(At(@, c.cursor.line))),
                                c.cursor.line, 1, <<>>),
               !.cursor = Pos(c.cursor.line - 1, prevLineLen),
               !.modified = TRUE]
  ELSE st

\* the splice result without the push of an empty line
PushIfEmpty_Never(newLines) == newLines

\* the array the splice in deleteLine and in Visual d/x leaves
PushIfEmpty(newLines) == IF Len(newLines) = 0 THEN <<<<>>>> ELSE newLines

\* deleteLine appending to the register
deleteLine_Appends(c, st, count) ==
  LET linesToDelete == Slice(c.lines, c.cursor.line, c.cursor.line + count)
      st1 == [st EXCEPT
                !.yankBuffer = @ \o linesToDelete,
                !.lines = PushIfEmpty(Splice(@, c.cursor.line, count, <<>>)),
                !.cursor = clampCursor(c.mode, @,
                                       IF Len(c.lines) > count THEN c.lines ELSE <<<<>>>>),
                !.modified = TRUE]
  IN showStatus(st1, Msg("deleted", count, <<>>), 2000)

\* deleteLine splicing one line more than it puts into the register
deleteLine_OneTooMany(c, st, count) ==
  LET linesToDelete == Slice(c.lines, c.cursor.line, c.cursor.line + count)
      st1 == [st EXCEPT
                !.yankBuffer = linesToDelete,
                !.lines = PushIfEmpty(Splice(@, c.cursor.line, count + 1, <<>>)),
                !.cursor = clampCursor(c.mode, @,
                                       IF Len(c.lines) > count THEN c.lines ELSE <<<<>>>>),
                !.modified = TRUE]
  IN showStatus(st1, Msg("deleted", count, <<>>), 2000)

deleteLine(c, st, count) ==
  LET linesToDelete == Slice(c.lines, c.cursor.line, c.cursor.line + count)
      st1 == [st EXCEPT
                !.yankBuffer = linesToDelete,
                !.lines = PushIfEmpty(Splice(@, c.cursor.line, count, <<>>)),
                !.cursor = clampCursor(c.mode, @,
                                       IF Len(c.lines) > count THEN c.lines ELSE <<<<>>>>),
                !.modified = TRUE]
  IN showStatus(st1, Msg("deleted", count, <<>>), 2000)

yankLine(c, st, count) ==
  LET linesToYank == Slice(c.lines, c.cursor.line, c.cursor.line + count)
  IN showStatus([st EXCEPT !.yankBuffer = linesToYank], Msg("yanked", count, <<>>), 2000)

pasteBefore(c, st) ==
  IF Len(c.yankBuffer) = 0 THEN st
  ELSE showStatus([st EXCEPT
                     !.lines = Splice(@, c.cursor.line, 0, c.yankBuffer),
                     !.modified = TRUE],
                  Msg("pasted", Len(c.yankBuffer), <<>>), 2000)

\* pasteAfter emptying the register
pasteAfter_Consumes(c, st) ==
  IF Len(c.yankBuffer) = 0 THEN st
  ELSE showStatus([st EXCEPT
                     !.lines = Splice(@, c.cursor.line + 1, 0, c.yankBuffer),
                     !.cursor = Pos(@.line + 1, 0),
                     !.yankBuffer = <<>>,
                     !.modified = TRUE],
                  Msg("pasted", Len(c.yankBuffer), <<>>), 2000)

pasteAfter(c, st) ==
  IF Len(c.yankBuffer) = 0 THEN st
  ELSE showStatus([st EXCEPT
                     !.lines = Splice(@, c.cursor.line + 1, 0, c.yankBuffer),
                     !.cursor = Pos(@.line + 1, 0),
                     !.modified = TRUE],
                  Msg("pasted", Len(c.yankBuffer), <<>>), 2000)

openLineBelow(c, st) ==
  [st EXCEPT !.lines = Splice(@, c.cursor.line + 1, 0, <<<<>>>>),
             !.cursor = Pos(@.line + 1, 0),
             !.mode = "insert",
             !.modified = TRUE]

openLineAbove(c, st) ==
  [st EXCEPT !.lines = Splice(@, c.cursor.line, 0, <<<<>>>>),
             !.cursor = Pos(@.line, 0),
             !.mode = "insert",
             !.modified = TRUE]

\* joinLines putting the blank after an empty line as well
joinLines_AlwaysSpace(c, st) ==
  IF c.cursor.line >= Len(c.lines) - 1 THEN st
  ELSE LET currentLine == OrEmpty(At(st.lines, c.cursor.line))
           nextLine == TrimStart(OrEmpty(At(st.lines, c.cursor.line + 1)))
       IN [st EXCEPT
             !.lines = Splice(SetAt(@, c.cursor.line, currentLine \o <<" ">> \o nextLine),
                              c.cursor.line + 1, 1, <<>>),
             !.modified = TRUE]

joinLines(c, st) ==
  IF c.cursor.line >= Len(c.lines) - 1 THEN st
  ELSE LET currentLine == OrEmpty(At(st.lines, c.cursor.line))
           nextLine == TrimStart(OrEmpty(At(st.lines, c.cursor.line + 1)))
           sp == IF Len(currentLine) > 0 THEN <<" ">> ELSE <<>>
       IN [st EXCEPT
             !.lines = Splice(SetAt(@, c.cursor.line, currentLine \o sp \o nextLine),
                              c.cursor.line + 1, 1, <<>>),
             !.modified = TRUE]

undoLastChange(c, st) == showStatus(st, Msg("Undo not yet implemented", 0, <<>>), 2000)

redoLastChange(c, st) == showStatus(st, Msg("Redo not yet implemented", 0, <<>>), 2000)


\* ------------------------------------------------------------------------
\* The shell's callbacks (Terminal.tsx)
\* ------------------------------------------------------------------------
\* writeFile(fileSystem, filename, content): whether result.success holds is
\* decided by the file system, and a successful write stores the content
writeFile(fs, content) ==
  [success |-> fs.writable,
   stored |-> IF fs.writable THEN <<content>> ELSE fs.stored]

\* onSave(content) = handleEditorSave: the content handed over is recorded,
\* the file system is updated when the write succeeds, nothing is returned
onSave(st, content) ==
  LET result == writeFile(st, content)
  IN [st EXCEPT !.saved = <<content>>,
                !.stored = IF result.success THEN result.stored ELSE @]

\* onExit() = handleEditorExit: closes the editor, which unmounts VimEditor
onExit(st) == [st EXCEPT !.exits = @ + 1, !.session = "closed"]

\* ------------------------------------------------------------------------
\* executeVimCommand(cmd)
\* ------------------------------------------------------------------------
\* the forward scan starting on the cursor column itself
SearchForward_FromCursor(c, pattern) ==
  LET idx(i) == IndexOf(c.lines[i + 1], pattern,
                        IF i = c.cursor.line THEN c.cursor.col ELSE 0)
      found == {i \in c.cursor.line..(Len(c.lines) - 1) : idx(i) # -1}
  IN IF found = {} THEN {}
     ELSE LET i == CHOOSE j \in found : \A k \in found : j <= k
          IN {Pos(i, idx(i))}

\* the forward scan of /pattern and of n: the first line i >= cursor.line
\* with a match, as a set of at most one position
SearchForward(c, pattern) ==
  LET idx(i) == IndexOf(c.lines[i + 1], pattern,
                        IF i = c.cursor.line THEN c.cursor.col + 1 ELSE 0)
      found == {i \in c.cursor.line..(Len(c.lines) - 1) : idx(i) # -1}
  IN IF found = {} THEN {}
     ELSE LET i == CHOOSE j \in found : \A k \in found : j <= k
          IN {Pos(i, idx(i))}

\* the substitution of s/old/new/flags on one line
Substitute(line, oldText, newText, flags) ==
  IF Includes(flags, "g")
    THEN Join(Split(line, oldText), newText)
    ELSE ReplaceFirst(line, oldText, newText)

RECURSIVE CountChanged(_, _, _, _)
CountChanged(lns, oldText, newText, flags) ==
  IF lns = <<>> THEN 0
  ELSE (IF Substitute(Head(lns), oldText, newText, flags) # Head(lns) THEN 1 ELSE 0)
       + CountChanged(Tail(lns), oldText, newText, flags)

\* the line jump without Math.max and Math.min
cmdLineJump_Unclamped(c, lineNum) ==
  [c EXCEPT !.cursor = Pos(lineNum - 1, 0), !.mode = "normal"]

\* the line jump of a command parseInt reads a number from
cmdLineJump(c, lineNum) ==
  [c EXCEPT !.cursor = Pos(Max(0, Min(lineNum - 1, Len(c.lines) - 1)), 0),
            !.mode = "normal"]

\* case 'w'
cmdWrite(c) ==
  [showStatus(onSave(c, getContent(c)),
              Msg("written", Len(c.lines), getContent(c)), 2000)
     EXCEPT !.modified = FALSE, !.mode = "normal"]

\* case 'q' without the test of modified
cmdQuit_Always(c) == onExit(c)

\* case 'q' refusing whatever modified is
cmdQuit_Never(c) ==
  [showStatus(c, Msg("E37: No write since last change (add ! to override)",
                     0, <<>>), 0)
     EXCEPT !.mode = "normal"]

\* case 'q'
cmdQuit(c) ==
  IF c.modified
    THEN [showStatus(c, Msg("E37: No write since last change (add ! to override)",
                            0, <<>>), 0)
            EXCEPT !.mode = "normal"]
    ELSE onExit(c)

\* case 'wq', case 'x' leaving at once, without the save
cmdWriteQuit_ExitNow(c) == onExit(c)

\* case 'wq', case 'x'
cmdWriteQuit(c) ==
  [showStatus(onSave(c, getContent(c)), Msg("written", Len(c.lines), <<>>), 2000)
     EXCEPT !.exitTimers = @ + 1]

\* case 'wq!'
cmdWriteQuitNow(c) == onExit(onSave(c, getContent(c)))

\* eager: whether React runs the updater handed to setLines inside the call
\* (the component has no update pending) or at the next render
executeVimCommand(c, cmd, eager) ==
  LET trimmedCmd == Trim(cmd)
      lineNum == ParseInt(trimmedCmd)
      st == c
  IN
  IF lineNum.ok THEN cmdLineJump(c, lineNum.val)
  ELSE IF trimmedCmd = <<"w">> THEN cmdWrite(c)
  ELSE IF trimmedCmd = <<"q">> THEN cmdQuit(c)
  ELSE IF trimmedCmd = <<"q", "!">> THEN onExit(st)
  ELSE IF trimmedCmd \in {<<"w", "q">>, <<"x">>} THEN cmdWriteQuit(c)
  ELSE IF trimmedCmd = <<"w", "q", "!">> THEN cmdWriteQuitNow(c)
  ELSE IF StartsWith(trimmedCmd, <<"/">>)
    THEN LET pattern == SliceFrom(trimmedCmd, 1)
             hit == SearchForward(c, pattern)
             st1 == [st EXCEPT !.searchPattern = pattern]
         IN IF hit # {}
              THEN [showStatus([st1 EXCEPT !.cursor = CHOOSE p \in hit : TRUE],
                               Msg("/", 0, pattern), 2000)
                      EXCEPT !.mode = "normal"]
              ELSE [showStatus(st1, Msg("Pattern not found: ", 0, pattern), 2000)
                      EXCEPT !.mode = "normal"]
  ELSE IF StartsWith(trimmedCmd, <<"?">>)
    THEN [showStatus([st EXCEPT !.searchPattern = SliceFrom(trimmedCmd, 1)],
                     Msg("Backward search not yet implemented", 0, <<>>), 2000)
            EXCEPT !.mode = "normal"]
  ELSE IF StartsWith(trimmedCmd, <<"s", "/">>)
    THEN LET parts == Split(trimmedCmd, <<"/">>)
         IN IF Len(parts) >= 3
              THEN LET oldText == parts[2]
                       newText == parts[3]
                       flags == OrEmpty(At(parts, 3))
                       currentLine == OrEmpty(At(c.lines, c.cursor.line))
                       newLine == Substitute(currentLine, oldText, newText, flags)
                   IN IF newLine # currentLine
                        THEN [showStatus([st EXCEPT
                                            !.lines = SetAt(@, c.cursor.line, newLine),
                                            !.modified = TRUE],
                                         Msg("1 substitution", 0, <<>>), 2000)
                                EXCEPT !.mode = "normal"]
                        ELSE [showStatus(st, Msg("Pattern not found", 0, <<>>), 2000)
                                EXCEPT !.mode = "normal"]
              ELSE [st EXCEPT !.mode = "normal"]
  ELSE IF StartsWith(trimmedCmd, <<"%", "s", "/">>)
    THEN LET parts == Split(SliceFrom(trimmedCmd, 1), <<"/">>)
         IN IF Len(parts) >= 3
              THEN LET oldText == parts[2]
                       newText == parts[3]
                       flags == OrEmpty(At(parts, 3))
                       \* let count = 0, incremented by the updater of setLines
                       \* and read by showStatus right after the call
                       count == IF eager
                                  THEN CountChanged(st.lines, oldText, newText, flags)
                                  ELSE 0
                   IN [showStatus([st EXCEPT
                                     !.lines = [i \in 1..Len(@) |->
                                                  Substitute(@[i], oldText, newText, flags)],
                                     !.modified = TRUE],
                                  Msg("substitutions", count, <<>>), 2000)
                         EXCEPT !.mode = "normal"]
              ELSE [st EXCEPT !.mode = "normal"]
  ELSE IF trimmedCmd \in {<<"s", "e", "t", " ", "n", "u">>,
                          <<"s", "e", "t", " ", "n", "u", "m", "b", "e", "r">>}
    THEN [showStatus(st, Msg("Line numbers are always shown", 0, <<>>), 2000)
            EXCEPT !.mode = "normal"]
  ELSE IF trimmedCmd \in {<<"s", "e", "t", " ", "n", "o", "n", "u">>,
                          <<"s", "e", "t", " ", "n", "o", "n", "u", "m", "b", "e", "r">>}
    THEN [showStatus(st, Msg("Line numbers cannot be hidden in this version", 0, <<>>), 2000)
            EXCEPT !.mode = "normal"]
  ELSE [showStatus(st, Msg("E492: Not an editor command: ", 0, trimmedCmd), 2000)
          EXCEPT !.mode = "normal"]


\* ------------------------------------------------------------------------
\* Key events: e.key, e.ctrlKey, e.metaKey
\* ------------------------------------------------------------------------
Ev(k) == [key |-> k, ctrlKey |-> FALSE, metaKey |-> FALSE]
Ctrl(k) == [key |-> k, ctrlKey |-> TRUE, metaKey |-> FALSE]

\* the key names that are longer than one character
NamedKeys == {"ArrowLeft", "ArrowRight", "ArrowUp", "ArrowDown", "Escape",
              "Backspace", "Delete", "Enter", "Tab", "Control"}

\* key.length === 1
IsCharKey(k) == k \notin NamedKeys

\* for (let i = 0; i < count; i++) Op()
RECURSIVE Repeat(_, _, _, _)
Repeat(Op(_, _), count, c, st) ==
  IF count <= 0 THEN st ELSE Repeat(Op, count - 1, c, Op(c, st))

\* ------------------------------------------------------------------------
\* handleNormalModeKey(e)
\* ------------------------------------------------------------------------
\* the keys the switch has a case for
NormalCaseKeys ==
  {"h", "ArrowLeft", "j", "ArrowDown", "k", "ArrowUp", "l", "ArrowRight",
   "0", "$", "^", "w", "b", "g", "G", "i", "I", "a", "A", "o", "O", "R",
   "v", "V", ":", "/", "x", "X", "d", "D", "y", "Y", "p", "P", "J", "u",
   "r", "c", "C", "s", "S", "n", "N", "Escape", ".", "Control"}

\* case 'c' with lastCommand === 'c', and case 'S', without setMode('insert')
changeLine_StaysNormal(c, st) ==
  [st EXCEPT !.yankBuffer = <<At(c.lines, c.cursor.line)>>,
             !.lines = SetAt(@, c.cursor.line, <<>>),
             !.cursor = Pos(@.line, 0),
             !.modified = TRUE]

\* case 'c' with lastCommand === 'c', and case 'S'
changeLine(c, st) ==
  [st EXCEPT !.yankBuffer = <<At(c.lines, c.cursor.line)>>,
             !.lines = SetAt(@, c.cursor.line, <<>>),
             !.cursor = Pos(@.line, 0),
             !.mode = "insert",
             !.modified = TRUE]

\* case 'D' without setModified(true)
deleteToLineEnd_KeepsFlag(c, st) ==
  [st EXCEPT !.lines = SetAt(@, c.cursor.line,
                             Slice(OrEmpty(At(@, c.cursor.line)), 0, c.cursor.col))]

\* case 'D' and the buffer update of case 'C'
deleteToLineEnd(c, st) ==
  [st EXCEPT !.lines = SetAt(@, c.cursor.line,
                             Slice(OrEmpty(At(@, c.cursor.line)), 0, c.cursor.col)),
             !.modified = TRUE]

\* case 'N': the scan from cursor.line down to 0
SearchBackward(c, pattern) ==
  LET searchIn(i) == IF i = c.cursor.line
                       THEN Slice(c.lines[i + 1], 0, c.cursor.col)
                       ELSE c.lines[i + 1]
      found == {i \in 0..c.cursor.line : LastIndexOf(searchIn(i), pattern) # -1}
  IN IF found = {} THEN {}
     ELSE LET i == CHOOSE j \in found : \A k \in found : j >= k
          IN {Pos(i, LastIndexOf(searchIn(i), pattern))}

handleNormalModeKey(c, e) ==
  LET key == e.key
      parsed == ParseInt(c.numberBuffer)
      count == IF parsed.ok /\ parsed.val # 0 THEN parsed.val ELSE 1
      \* resetNumber()
      rn(st) == [st EXCEPT !.numberBuffer = <<>>]
      lc(st, v) == [st EXCEPT !.lastCommand = v]
  IN
  IF IsDigit(key) /\ (c.numberBuffer # <<>> \/ key # "0")
    THEN [c EXCEPT !.numberBuffer = @ \o <<key>>]
  ELSE CASE key \in {"h", "ArrowLeft"} -> rn(Repeat(moveLeft, count, c, c))
    [] key \in {"j", "ArrowDown"} -> rn(Repeat(moveDown, count, c, c))
    [] key \in {"k", "ArrowUp"} -> rn(Repeat(moveUp, count, c, c))
    [] key \in {"l", "ArrowRight"} -> rn(Repeat(moveRight, count, c, c))
    [] key = "0" -> rn(moveToLineStart(c, c))
    [] key = "$" -> rn(moveToLineEnd(c, c))
    [] key = "^" -> rn(moveToFirstNonWhitespace(c, c))
    [] key = "w" -> rn(Repeat(moveWordForward, count, c, c))
    [] key = "b" -> rn(Repeat(moveWordBackward, count, c, c))
    [] key = "g" -> IF c.lastCommand = "g"
                      THEN rn(lc(moveToTop(c, c), ""))
                      ELSE rn(lc(c, "g"))
    [] key = "G" -> IF c.numberBuffer # <<>>
                      THEN rn([c EXCEPT !.cursor =
                                 Pos(Max(0, Min(count - 1, Len(c.lines) - 1)), 0)])
                      ELSE rn(moveToBottom(c, c))
    [] key = "i" -> rn([c EXCEPT !.mode = "insert"])
    [] key = "I" -> rn([moveToFirstNonWhitespace(c, c) EXCEPT !.mode = "insert"])
    [] key = "a" -> rn([c EXCEPT
                          !.cursor = Pos(@.line, Min(@.col + 1, LenOr(c.lines, @.line, 0))),
                          !.mode = "insert"])
    [] key = "A" -> rn([c EXCEPT
                          !.cursor = Pos(@.line, LenOr(c.lines, @.line, 0)),
                          !.mode = "insert"])
    [] key = "o" -> rn(openLineBelow(c, c))
    [] key = "O" -> rn(openLineAbove(c, c))
    [] key = "R" -> rn([c EXCEPT !.mode = "replace"])
    [] key = "v" -> rn([c EXCEPT !.mode = "visual", !.visualStart = <<c.cursor>>])
    [] key = "V" -> rn([c EXCEPT !.mode = "visual",
                                 !.visualStart = <<Pos(c.cursor.line, 0)>>])
    [] key = ":" -> rn([c EXCEPT !.mode = "command", !.commandBuffer = <<>>])
    [] key = "/" -> rn([c EXCEPT !.mode = "command", !.commandBuffer = <<"/">>])
    [] key = "x" -> rn(Repeat(deleteChar, count, c, c))
    [] key = "X" -> rn(Repeat(backspace, count, c, c))
    [] key = "d" -> IF c.lastCommand = "d"
                      THEN rn(lc(deleteLine(c, c, count), ""))
                      ELSE rn(lc(c, "d"))
    [] key = "D" -> rn(deleteToLineEnd(c, c))
    [] key = "y" -> IF c.lastCommand = "y"
                      THEN rn(lc(yankLine(c, c, count), ""))
                      ELSE rn(lc(c, "y"))
    [] key = "Y" -> rn(yankLine(c, c, count))
    [] key = "p" -> rn(pasteAfter(c, c))
    [] key = "P" -> rn(pasteBefore(c, c))
    [] key = "J" -> rn(joinLines(c, c))
    [] key = "u" -> rn(undoLastChange(c, c))
    [] key = "r" -> rn(lc(c, "r"))
    [] key = "c" -> IF c.lastCommand = "c"
                      THEN rn(lc(changeLine(c, c), ""))
                      ELSE rn(lc(c, "c"))
    [] key = "C" -> rn([deleteToLineEnd(c, c) EXCEPT !.mode = "insert"])
    [] key = "s" -> rn([deleteChar(c, c) EXCEPT !.mode = "insert"])
    [] key = "S" -> rn(changeLine(c, c))
    [] key = "n" -> LET hit == IF c.searchPattern # <<>>
                                 THEN SearchForward(c, c.searchPattern) ELSE {}
                    IN IF hit # {}
                         THEN rn([c EXCEPT !.cursor = CHOOSE p \in hit : TRUE])
                         ELSE rn(c)
    [] key = "N" -> LET hit == IF c.searchPattern # <<>>
                                 THEN SearchBackward(c, c.searchPattern) ELSE {}
                    IN IF c.searchPattern # <<>> /\ c.cursor.line >= Len(c.lines)
                         \* lines[cursor.line] is undefined: .slice throws a
                         \* TypeError and the handler ends before any update
                         THEN c
                       ELSE IF hit # {}
                         THEN rn([c EXCEPT !.cursor = CHOOSE p \in hit : TRUE])
                         ELSE rn(c)
    [] key = "Escape" -> rn(lc(c, ""))
    [] key = "." -> rn(showStatus(c, Msg("Repeat command not yet implemented", 0, <<>>), 2000))
    [] key = "Control" -> IF e.ctrlKey /\ e.key = "r"
                            THEN rn(redoLastChange(c, c))
                            ELSE rn(c)
    [] OTHER -> IF c.lastCommand = "r" /\ IsCharKey(key)
                  THEN LET line == OrEmpty(At(c.lines, c.cursor.line))
                       IN rn(lc([c EXCEPT
                                   !.lines = SetAt(@, c.cursor.line,
                                                   Slice(line, 0, c.cursor.col) \o <<key>>
                                                     \o SliceFrom(line, c.cursor.col + 1)),
                                   !.modified = TRUE], ""))
                  ELSE rn(c)

\* ------------------------------------------------------------------------
\* handleInsertModeKey(e)
\* ------------------------------------------------------------------------
handleInsertModeKey(c, e) ==
  CASE e.key = "Escape" ->
         [c EXCEPT !.mode = "normal",
                   !.cursor = clampCursor(c.mode, Pos(@.line, Max(0, @.col - 1)), c.lines)]
    [] e.key = "Backspace" -> backspace(c, c)
    [] e.key = "Delete" -> deleteChar(c, c)
    [] e.key = "Enter" -> insertNewLine(c, c)
    [] e.key = "Tab" -> insertChar(c, c, <<" ", " ">>)
    [] e.key = "ArrowLeft" -> moveLeft(c, c)
    [] e.key = "ArrowRight" ->
         [c EXCEPT !.cursor = Pos(@.line, Min(@.col + 1, LenOr(c.lines, @.line, 0)))]
    [] e.key = "ArrowUp" -> moveUp(c, c)
    [] e.key = "ArrowDown" -> moveDown(c, c)
    [] OTHER -> IF IsCharKey(e.key) /\ ~e.ctrlKey /\ ~e.metaKey
                  THEN insertChar(c, c, <<e.key>>)
                  ELSE c

\* ------------------------------------------------------------------------
\* handleReplaceModeKey(e)
\* ------------------------------------------------------------------------
handleReplaceModeKey(c, e) ==
  IF e.key = "Escape" THEN [c EXCEPT !.mode = "normal"]
  ELSE IF IsCharKey(e.key) /\ ~e.ctrlKey /\ ~e.metaKey
    THEN LET line == OrEmpty(At(c.lines, c.cursor.line))
         IN [c EXCEPT
               !.lines = SetAt(@, c.cursor.line,
                               IF c.cursor.col < Len(line)
                                 THEN Slice(line, 0, c.cursor.col) \o <<e.key>>
                                        \o SliceFrom(line, c.cursor.col + 1)
                                 ELSE line \o <<e.key>>),
               !.cursor = Pos(@.line, @.col + 1),
               !.modified = TRUE]
  ELSE c

\* ------------------------------------------------------------------------
\* handleVisualModeKey(e)
\* ------------------------------------------------------------------------
handleVisualModeKey(c, e) ==
  LET leave(st) == [st EXCEPT !.mode = "normal", !.visualStart = <<>>]
      startLine == Min(c.visualStart[1].line, c.cursor.line)
      endLine == Max(c.visualStart[1].line, c.cursor.line)
      range == Slice(c.lines, startLine, endLine + 1)
  IN CASE e.key = "Escape" -> leave(c)
       [] e.key \in {"h", "ArrowLeft"} -> moveLeft(c, c)
       [] e.key \in {"j", "ArrowDown"} -> moveDown(c, c)
       [] e.key \in {"k", "ArrowUp"} -> moveUp(c, c)
       [] e.key \in {"l", "ArrowRight"} -> moveRight(c, c)
       [] e.key \in {"d", "x"} ->
            IF c.visualStart # <<>>
              THEN leave(showStatus(
                     [c EXCEPT
                        !.yankBuffer = range,
                        !.lines = PushIfEmpty(Splice(@, startLine, endLine - startLine + 1, <<>>)),
                        !.cursor = Pos(startLine, 0),
                        !.modified = TRUE],
                     Msg("deleted", Len(range), <<>>), 2000))
              ELSE leave(c)
       [] e.key = "y" ->
            IF c.visualStart # <<>>
              THEN leave(showStatus([c EXCEPT !.yankBuffer = range],
                                    Msg("yanked", Len(range), <<>>), 2000))
              ELSE leave(c)
       [] OTHER -> c


\* ------------------------------------------------------------------------
\* handleKeyDown(e): the key handler of the editor area
\* ------------------------------------------------------------------------
handleKeyDown(c, e) ==
  CASE c.mode = "normal" -> handleNormalModeKey(c, e)
    [] c.mode = "insert" -> handleInsertModeKey(c, e)
    [] c.mode = "replace" -> handleReplaceModeKey(c, e)
    [] c.mode = "visual" -> handleVisualModeKey(c, e)
    [] OTHER -> c

\* handleCommandSubmit(e)
handleCommandSubmit(c, eager) ==
  [executeVimCommand(c, c.commandBuffer, eager) EXCEPT !.commandBuffer = <<>>]

\* ------------------------------------------------------------------------
\* State
\* ------------------------------------------------------------------------
VARIABLES
  initialContent,   \* prop initialContent
  lines, mode, cursor, commandBuffer, statusMessage, modified, visualStart,
  yankBuffer, searchPattern, lastCommand, numberBuffer,   \* useState of VimEditor
  saved,            \* <<content>> of the latest onSave call, <<>> before the first
  stored,           \* <<content>> of the latest successful write, <<>> before it
  writable,         \* whether writeFile succeeds for the file of this session
  exits,            \* number of onExit calls
  exitTimers,       \* pending setTimeout(onExit, 100)
  statusTimers,     \* pending setTimeout(() => setStatusMessage(''), duration)
  session,          \* "open", "closed" (editorState.isOpen false) or "crashed"
  budget,           \* number of input events the run may still handle
  hist,             \* the latest histLen events, each with the mode it met
  histLen           \* how many events hist keeps (fixed during a run)

vars == <<initialContent, lines, mode, cursor, commandBuffer, statusMessage,
          modified, visualStart, yankBuffer, searchPattern, lastCommand,
          numberBuffer, saved, stored, writable, exits, exitTimers, statusTimers,
          session, budget, hist, histLen>>

\* the state a handler created at the last render sees
Cur ==
  [lines |-> lines, mode |-> mode, cursor |-> cursor,
   commandBuffer |-> commandBuffer, statusMessage |-> statusMessage,
   modified |-> modified, visualStart |-> visualStart,
   yankBuffer |-> yankBuffer, searchPattern |-> searchPattern,
   lastCommand |-> lastCommand, numberBuffer |-> numberBuffer,
   saved |-> saved, stored |-> stored, writable |-> writable,
   exits |-> exits, exitTimers |-> exitTimers,
   statusTimers |-> statusTimers, session |-> session]

\* the render maps line.split('') over lines: it throws on an undefined entry
RenderThrows(lns) == \E i \in 1..Len(lns) : lns[i] = UNDEF

\* ------------------------------------------------------------------------
\* Inputs
\* ------------------------------------------------------------------------
InitChars == {"e", NL}

InitialContents == UNION {[1..n -> InitChars] : n \in 0..MaxInitLen}

NormalKeys ==
  {Ev(k) : k \in {"h", "l", "j", "k", "0", "$", "^", "w", "b", "g", "G", "i", "I",
                  "a", "A", "o", "O", "R", "v", "V", ":", "/", "x", "X", "d", "D",
                  "y", "Y", "p", "P", "J", "r", "c", "C", "s", "S", "n", "N", "2",
                  "e", "Escape"}}

InsertKeys ==
  {Ev(k) : k \in {"Escape", "Backspace", "Delete", "Enter", "Tab", "ArrowRight", "e"}}

ReplaceKeys == {Ev("Escape"), Ev("e")}

\* the count prefixes that are typed
CountPrefixes == {<<>>, <<"2">>}

VisualKeys == {Ev(k) : k \in {"Escape", "h", "l", "j", "k", "d", "x", "y"}}

CommandTexts ==
  {<<"w">>, <<"q">>, <<"q", "!">>, <<"w", "q">>, <<"w", "q", "!">>, <<"2">>,
   <<"/", "e">>, <<"s", "/", "e", "/", " ", "/">>, <<"z">>}

\* the batched updates of one event are committed and the component re-renders
Event(k) == [m |-> mode, k |-> k]

LastK(s, n) == SubSeq(s, Max(1, Len(s) - n + 1), Len(s))

\* the callbacks of timers are no input: hist does not record them and
\* they are not counted against budget
TimerEvents == {"@statusTimer", "@exitTimer"}

Commit(st, ev) ==
  /\ ev \in TimerEvents \/ budget > 0
  /\ hist' = IF ev \in TimerEvents THEN hist
             ELSE LastK(Append(hist, Event(ev)), histLen)
  /\ UNCHANGED histLen
  /\ st.numberBuffer \in CountPrefixes
  /\ budget' = IF ev \in TimerEvents THEN budget ELSE budget - 1
  /\ lines' = st.lines
  /\ mode' = st.mode
  /\ cursor' = st.cursor
  /\ commandBuffer' = st.commandBuffer
  /\ statusMessage' = st.statusMessage
  /\ modified' = st.modified
  /\ visualStart' = st.visualStart
  /\ yankBuffer' = st.yankBuffer
  /\ searchPattern' = st.searchPattern
  /\ lastCommand' = st.lastCommand
  /\ numberBuffer' = st.numberBuffer
  /\ saved' = st.saved
  /\ stored' = st.stored
  /\ UNCHANGED writable
  /\ exits' = st.exits
  /\ exitTimers' = st.exitTimers
  /\ statusTimers' = st.statusTimers
  /\ session' = IF st.session = "open" /\ RenderThrows(st.lines)
                  THEN "crashed" ELSE st.session
  /\ UNCHANGED initialContent

\* ------------------------------------------------------------------------
\* Init: the state after VimEditor is mounted by openEditor
\* ------------------------------------------------------------------------
InitLines(text) ==
  LET content == text
  IN IF Len(Split(content, <<NL>>)) > 0 THEN Split(content, <<NL>>) ELSE <<<<>>>>

\* fs: the outcomes of writeFile the file systems of the runs give
InitFor(events, keep, fs) ==
  /\ writable \in fs
  /\ stored = <<>>
  /\ initialContent \in InitialContents
  /\ lines = InitLines(initialContent)
  /\ mode = "normal"
  /\ cursor = Pos(0, 0)
  /\ commandBuffer = <<>>
  /\ statusMessage = NoMsg
  /\ modified = FALSE
  /\ visualStart = <<>>
  /\ yankBuffer = <<>>
  /\ searchPattern = <<>>
  /\ lastCommand = ""
  /\ numberBuffer = <<>>
  /\ saved = <<>>
  /\ exits = 0
  /\ exitTimers = 0
  /\ statusTimers = 0
  /\ session = "open"
  /\ budget = events
  /\ hist = <<>>
  /\ histLen = keep

\* the runs in which every write succeeds
InitWith(events, keep) == InitFor(events, keep, {TRUE})

Init == InitWith(MaxSteps, 0)

\* ------------------------------------------------------------------------
\* Actions
\* ------------------------------------------------------------------------
NormalKey(e) ==
  /\ session = "open" /\ mode = "normal"
  /\ Commit(handleKeyDown(Cur, e), e.key)

InsertKey(e) ==
  /\ session = "open" /\ mode = "insert"
  /\ Commit(handleKeyDown(Cur, e), e.key)

ReplaceKey(e) ==
  /\ session = "open" /\ mode = "replace"
  /\ Commit(handleKeyDown(Cur, e), e.key)

VisualKey(e) ==
  /\ session = "open" /\ mode = "visual"
  /\ Commit(handleKeyDown(Cur, e), e.key)

\* onChange of the command input
CommandChange(text) ==
  /\ session = "open" /\ mode = "command"
  /\ Commit([Cur EXCEPT !.commandBuffer = text], "@change")

\* onSubmit of the command form
CommandSubmit ==
  /\ session = "open" /\ mode = "command"
  /\ \E eager \in BOOLEAN : Commit(handleCommandSubmit(Cur, eager), "@submit")

\* onKeyDown of the command input with Escape
CommandEscape ==
  /\ session = "open" /\ mode = "command"
  /\ Commit([Cur EXCEPT !.mode = "normal", !.commandBuffer = <<>>], "@escape")

\* the callback of setTimeout(() => setStatusMessage(''), duration)
StatusTimerFire ==
  /\ statusTimers > 0
  /\ Commit([Cur EXCEPT !.statusMessage = IF session = "open" THEN NoMsg ELSE @,
                        !.statusTimers = @ - 1], "@statusTimer")

\* a timer whose callback is dropped
ExitTimerFire_Lost ==
  /\ exitTimers > 0
  /\ Commit([Cur EXCEPT !.exitTimers = @ - 1], "@exitTimer")

\* the callback of setTimeout(onExit, 100)
ExitTimerFire ==
  /\ exitTimers > 0
  /\ Commit([onExit(Cur) EXCEPT !.exitTimers = @ - 1], "@exitTimer")

Next ==
  \/ \E e \in NormalKeys : NormalKey(e)
  \/ \E e \in InsertKeys : InsertKey(e)
  \/ \E e \in ReplaceKeys : ReplaceKey(e)
  \/ \E e \in VisualKeys : VisualKey(e)
  \/ \E text \in CommandTexts : CommandChange(text)
  \/ CommandSubmit
  \/ CommandEscape
  \/ StatusTimerFire
  \/ ExitTimerFire

Spec == Init /\ [][Next]_vars

\* ------------------------------------------------------------------------
\* The line-wise operators under key sequences: Normal-mode keys only, the
\* whole sequence of keys is kept in hist
\* ------------------------------------------------------------------------
OperatorKeys == {Ev(k) : k \in {"2", "d", "y", "p", "j"}}

InitKeys == InitWith(MaxKeySteps, MaxKeySteps)

NextKeys ==
  \/ \E e \in OperatorKeys : NormalKey(e)
  \/ StatusTimerFire

SpecKeys == InitKeys /\ [][NextKeys]_vars


\* ------------------------------------------------------------------------
\* Saving and leaving: the command line with the commands that save or exit,
\* and x as the one key that changes the text
\* ------------------------------------------------------------------------
QuitKeys == {Ev(":"), Ev("x")}

QuitTexts == {<<"w">>, <<"w", "q">>, <<"x">>, <<"q", "!">>}

InitQuit == InitWith(MaxQuitSteps, 0)

NextQuit ==
  \/ \E e \in QuitKeys : NormalKey(e)
  \/ \E text \in QuitTexts : CommandChange(text)
  \/ CommandSubmit
  \/ CommandEscape
  \/ StatusTimerFire
  \/ ExitTimerFire

SpecQuit == InitQuit /\ [][NextQuit]_vars

\* the browser runs the callback of every timer that was set
SpecQuitLive == SpecQuit /\ WF_vars(ExitTimerFire)


\* ------------------------------------------------------------------------
\* The mode switches: every key the Normal-mode switch has a case for, a
\* digit and a key without a case; hist keeps the latest event
\* ------------------------------------------------------------------------
ModeKeys == {Ev(k) : k \in NormalCaseKeys \cup {"2", "e"}}

InitModes == InitWith(MaxModeSteps, 1)

NextModes ==
  \/ \E e \in ModeKeys : NormalKey(e)
  \/ \E e \in InsertKeys : InsertKey(e)
  \/ \E e \in ReplaceKeys : ReplaceKey(e)
  \/ \E e \in VisualKeys : VisualKey(e)
  \/ CommandEscape
  \/ StatusTimerFire

SpecModes == InitModes /\ [][NextModes]_vars


\* ------------------------------------------------------------------------
\* The command line: line jumps, searches and texts that are no command,
\* with the keys that open the command line, move the cursor and repeat the
\* search; hist keeps the latest event
\* ------------------------------------------------------------------------
CmdKeys == {Ev(k) : k \in {":", "/", "n", "l", "j"}}

CmdTexts ==
  {<<"0">>, <<"2">>, <<"9">>, <<"2", "x">>, <<"w", "q", "!", "!">>,
   <<"s", "/", "e">>, <<"z">>, <<"/", "e">>, <<" ", "9", " ">>}

InitCmd == InitWith(MaxCmdSteps, 1)

NextCmd ==
  \/ \E e \in CmdKeys : NormalKey(e)
  \/ \E text \in CmdTexts : CommandChange(text)
  \/ CommandSubmit
  \/ CommandEscape
  \/ StatusTimerFire

SpecCmd == InitCmd /\ [][NextCmd]_vars


\* ------------------------------------------------------------------------
\* Substitution: s and %s on the command line, with the keys that open the
\* command line and move the cursor
\* ------------------------------------------------------------------------
SubKeys == {Ev(k) : k \in {":", "j", "l"}}

SubTexts ==
  {<<"s", "/", "e", "/", " ", "/">>, <<"s", "/", "e", "/", " ", "/", "g">>,
   <<"s", "/", "e", "/", "e", "/">>, <<"s", "/", "e", "e", "/", " ", "/", "g">>,
   <<"%", "s", "/", "e", "/", " ", "/">>, <<"%", "s", "/", "e", "/", " ", "/", "g">>}

InitSub == InitWith(MaxSubSteps, 0)

NextSub ==
  \/ \E e \in SubKeys : NormalKey(e)
  \/ \E text \in SubTexts : CommandChange(text)
  \/ CommandSubmit
  \/ CommandEscape
  \/ StatusTimerFire

SpecSub == InitSub /\ [][NextSub]_vars


\* ------------------------------------------------------------------------
\* Writing and quitting: w, q and q! after changes of the text, in file
\* systems where the write succeeds and where it fails
\* ------------------------------------------------------------------------
LeaveKeys == {Ev(":"), Ev("x")}

LeaveTexts == {<<"w">>, <<"q">>, <<"q", "!">>}

InitLeave == InitFor(MaxLeaveSteps, 0, BOOLEAN)

NextLeave ==
  \/ \E e \in LeaveKeys : NormalKey(e)
  \/ \E text \in LeaveTexts : CommandChange(text)
  \/ CommandSubmit
  \/ CommandEscape
  \/ StatusTimerFire

SpecLeave == InitLeave /\ [][NextLeave]_vars


\* ------------------------------------------------------------------------
\* The features that are not implemented: u, Ctrl+R and ?pattern, with r and
\* a key without a case of its own
\* ------------------------------------------------------------------------
StubKeys == {Ev("u"), Ctrl("r"), Ev("r"), Ev("e"), Ev(":")}

StubTexts == {<<"?", "e">>}

InitStub == InitWith(MaxStubSteps, 0)

NextStub ==
  \/ \E e \in StubKeys : NormalKey(e)
  \/ \E text \in StubTexts : CommandChange(text)
  \/ CommandSubmit
  \/ CommandEscape
  \/ StatusTimerFire

SpecStub == InitStub /\ [][NextStub]_vars


\* ------------------------------------------------------------------------
\* Joining lines: J with the keys that move the cursor up and type blanks and
\* line breaks; hist keeps the latest event
\* ------------------------------------------------------------------------
JoinKeys == {Ev(k) : k \in {"J", "i", "a", "k"}}

JoinInsertKeys == {Ev(k) : k \in {" ", "Enter", "Escape"}}

InitJoin == InitWith(MaxJoinSteps, 1)

NextJoin ==
  \/ \E e \in JoinKeys : NormalKey(e)
  \/ \E e \in JoinInsertKeys : InsertKey(e)

SpecJoin == InitJoin /\ [][NextJoin]_vars


\* ------------------------------------------------------------------------
\* Typing: Insert mode entered before and after the cursor and on the line
\* below, with characters, line breaks, Tab and Backspace; hist keeps the
\* latest two events
\* ------------------------------------------------------------------------
TypingNormalKeys == {Ev(k) : k \in {"i", "a", "j"}}

TypingKeys == {Ev(k) : k \in {"e", "Enter", "Tab", "Backspace", "Escape"}}

InitInsert == InitWith(MaxInsertSteps, 2)

NextInsert ==
  \/ \E e \in TypingNormalKeys : NormalKey(e)
  \/ \E e \in TypingKeys : InsertKey(e)

SpecInsert == InitInsert /\ [][NextInsert]_vars


\* ========================================================================
\* Properties
\* ========================================================================
\* the count a Normal-mode key is executed with
EffectiveCount ==
  IF numberBuffer = <<>> THEN 1 ELSE Max(1, DigitsVal(numberBuffer, 0))

\* the length of the cursor line (0 when the cursor is on no line)
CursorLineLen ==
  IF cursor.line >= 0 /\ cursor.line < Len(lines) /\ lines[cursor.line + 1] # UNDEF
    THEN Len(lines[cursor.line + 1]) ELSE 0

\* ls without the entries at 0-based indices from..to-1
Without(ls, from, to) == SubSeq(ls, 1, from) \o SubSeq(ls, to + 1, Len(ls))

\* what a line-wise delete leaves of what remains
OneEmptyIfNone(ls) == IF ls = <<>> THEN <<<<>>>> ELSE ls

\* the steps the properties speak about
DdStep == lastCommand = "d" /\ NormalKey(Ev("d"))
YyStep == lastCommand = "y" /\ NormalKey(Ev("y"))
YStep == NormalKey(Ev("Y"))
PasteAfterStep == NormalKey(Ev("p"))
VisualDeleteStep == VisualKey(Ev("d")) \/ VisualKey(Ev("x"))
VisualYankStep == VisualKey(Ev("y"))
SubmitStep(text) == mode = "command" /\ Trim(commandBuffer) = text /\ CommandSubmit

\* ------------------------------------------------------------------------
\* C1: after any sequence of keys and ex-commands the buffer holds at least
\* one line.
C1_BufferNeverEmpty == Len(lines) >= 1

\* a line-wise delete has removed every line of a buffer of two or more lines
C1_Witness ==
  /\ statusMessage.tag = "deleted"
  /\ Len(yankBuffer) >= 2
  /\ lines = <<<<>>>>

\* ------------------------------------------------------------------------
\* C2: while the editor is open the cursor column lies in
\* [0, max(lineLength - 1, 0)] in Normal, Visual and Replace mode and in
\* [0, lineLength] in Insert mode.
C2_CursorColumnInBounds ==
  session = "open" =>
    /\ mode \in {"normal", "visual", "replace"} =>
         cursor.col >= 0 /\ cursor.col <= Max(CursorLineLen - 1, 0)
    /\ mode = "insert" => cursor.col >= 0 /\ cursor.col <= CursorLineLen

\* ------------------------------------------------------------------------
\* C3: the cursor line is the index of an existing line of the buffer.
C3_CursorLineInBounds == cursor.line >= 0 /\ cursor.line <= Len(lines) - 1

\* ------------------------------------------------------------------------
\* C4: after dd, yy, Y and Visual d/x/y the register holds exactly the lines
\* that this operation removed or copied, whatever it held before.
C4_DeleteFillsRegister ==
  \E k \in 0..Len(lines) :
    /\ k + Len(yankBuffer') <= Len(lines)
    /\ yankBuffer' = SubSeq(lines, k + 1, k + Len(yankBuffer'))
    /\ lines' = OneEmptyIfNone(Without(lines, k, k + Len(yankBuffer')))

C4_YankFillsRegister(from, to) ==
  /\ lines' = lines
  /\ yankBuffer' = SubSeq(lines, Min(from, Len(lines)) + 1, Min(to, Len(lines)))

C4_Step ==
  /\ DdStep \/ VisualDeleteStep => C4_DeleteFillsRegister
  /\ YyStep \/ YStep =>
       C4_YankFillsRegister(cursor.line, cursor.line + EffectiveCount)
  /\ VisualYankStep =>
       C4_YankFillsRegister(Min(visualStart[1].line, cursor.line),
                            Max(visualStart[1].line, cursor.line) + 1)

C4_RegisterHoldsLatest == [][C4_Step]_vars

\* a second dd has run: the register holds the second line only, the third
\* line is what is left
C4_Witness ==
  LET init == InitLines(initialContent)
  IN /\ Len(init) = 3 /\ init[1] # init[2]
     /\ statusMessage.tag = "deleted"
     /\ yankBuffer = <<init[2]>>
     /\ lines = <<init[3]>>

\* ------------------------------------------------------------------------
\* C5: dd with count c on cursor line i of n lines removes lines
\* i .. min(i + c, n) - 1 into the register, in order, keeps the other lines
\* in order and leaves one empty line when none remains.
C5_Step ==
  DdStep =>
    LET i == cursor.line
        n == Len(lines)
        to == Max(i, Min(i + EffectiveCount, n))
    IN /\ yankBuffer' = [k \in 1..(to - i) |-> lines[i + k]]
       /\ lines' = OneEmptyIfNone(Without(lines, Min(i, n), Min(to, n)))

C5_DeleteLineRange == [][C5_Step]_vars

\* dd on the first of three lines: the other two remain, the register holds
\* the first, the cursor is at (0, 0)
C5_Witness ==
  LET init == InitLines(initialContent)
  IN /\ Len(init) = 3 /\ init[1] # init[2]
     /\ statusMessage.tag = "deleted"
     /\ yankBuffer = <<init[1]>>
     /\ lines = <<init[2], init[3]>>
     /\ cursor = Pos(0, 0)

\* ------------------------------------------------------------------------
\* C8: a step that changes the buffer text leaves the modified flag set, and
\* the flag is cleared only by the ex-command w.
C8_Step ==
  /\ lines' # lines => modified'
  /\ modified /\ ~modified' => SubmitStep(<<"w">>)

C8_ModifiedFlag == [][C8_Step]_vars

\* a save has cleared the flag of a buffer that differs from the loaded one
C8_Witness ==
  /\ ~modified
  /\ saved # <<>>
  /\ lines # InitLines(initialContent)

\* ------------------------------------------------------------------------
\* C9: q with unsaved changes does not exit, posts E37, leaves buffer, cursor,
\* register and modified flag as they are and ends in Normal mode.
C9_Step ==
  modified /\ SubmitStep(<<"q">>) =>
    /\ exits' = exits /\ session' = session /\ exitTimers' = exitTimers
    /\ statusMessage'.tag = "E37: No write since last change (add ! to override)"
    /\ lines' = lines /\ cursor' = cursor /\ yankBuffer' = yankBuffer
    /\ modified'
    /\ mode' = "normal"

C9_QuitRefusedWhenModified == [][C9_Step]_vars

C9_Witness ==
  /\ statusMessage.tag = "E37: No write since last change (add ! to override)"
  /\ modified /\ session = "open" /\ exits = 0 /\ mode = "normal"

\* ------------------------------------------------------------------------
\* C10: w hands the save callback the buffer lines joined by single
\* newlines, leaves buffer and cursor as they are and clears the modified
\* flag; saving an unchanged buffer hands over the loaded text.
\* t is the lines of ls with one newline between consecutive lines
IsNewlineJoin(t, ls) ==
  LET off(k) == LET f[j \in 0..Len(ls)] ==
                      IF j = 0 THEN 0 ELSE f[j - 1] + Len(ls[j]) + 1
                IN f[k - 1]
  IN /\ Len(t) = off(Len(ls) + 1) - 1
     /\ \A k \in 1..Len(ls) :
          /\ SubSeq(t, off(k) + 1, off(k) + Len(ls[k])) = ls[k]
          /\ k < Len(ls) => t[off(k) + Len(ls[k]) + 1] = NL

C10_Step ==
  SubmitStep(<<"w">>) =>
    /\ Len(saved') = 1 /\ IsNewlineJoin(saved'[1], lines)
    /\ lines' = lines /\ cursor' = cursor
    /\ ~modified'
    /\ (~modified /\ saved = <<>>) => saved' = <<initialContent>>

C10_WriteSavesBuffer == [][C10_Step]_vars

\* a loaded text of several lines has been saved unchanged
C10_Witness ==
  /\ statusMessage.tag = "written"
  /\ Len(lines) >= 2
  /\ saved = <<initialContent>>
  /\ ~modified


\* ------------------------------------------------------------------------
\* Key sequences (SpecKeys): hist is the sequence of all keys pressed
\* ------------------------------------------------------------------------
NormalEv(k) == [m |-> "normal", k |-> k]

\* only the motion j has been pressed: no operator is pending, no count typed
OnlyMotions(h) == \A n \in 1..Len(h) : h[n] = NormalEv("j")

\* the keys pressed so far are motions followed by the keys of tail
PressedAfterMotions(tail) ==
  /\ Len(hist) >= Len(tail)
  /\ SubSeq(hist, Len(hist) - Len(tail) + 1, Len(hist)) = tail
  /\ OnlyMotions(SubSeq(hist, 1, Len(hist) - Len(tail)))

\* ------------------------------------------------------------------------
\* C6: a count N typed before dd or yy is applied: N d d removes
\* min(N, lines from the cursor on) lines into the register and N y y yanks
\* that many.
C6_Step ==
  LET i == cursor.line
      to == Min(i + 2, Len(lines))
  IN /\ PressedAfterMotions(<<NormalEv("2"), NormalEv("d")>>) /\ NormalKey(Ev("d")) =>
          /\ yankBuffer' = SubSeq(lines, i + 1, to)
          /\ lines' = OneEmptyIfNone(Without(lines, i, to))
     /\ PressedAfterMotions(<<NormalEv("2"), NormalEv("y")>>) /\ NormalKey(Ev("y")) =>
          /\ yankBuffer' = SubSeq(lines, i + 1, to)
          /\ lines' = lines

C6_CountAppliesToDoubledKey == [][C6_Step]_vars

\* ------------------------------------------------------------------------
\* C7: yy on line i followed by p puts a copy of line i right after line i,
\* keeps the other lines in order and keeps the register, so that a further
\* p pastes the same line again.
RECURSIVE AllPaste(_)
AllPaste(h) == h = <<>> \/ (Head(h) = NormalEv("p") /\ AllPaste(Tail(h)))

\* yy has been pressed after motions only, followed by any number of p
YankedThenPasted(n) ==
  /\ Len(hist) >= n + 2
  /\ AllPaste(SubSeq(hist, Len(hist) - n + 1, Len(hist)))
  /\ LET h == SubSeq(hist, 1, Len(hist) - n)
     IN /\ SubSeq(h, Len(h) - 1, Len(h)) = <<NormalEv("y"), NormalEv("y")>>
        /\ OnlyMotions(SubSeq(h, 1, Len(h) - 2))

C7_Step ==
  LET i == cursor.line
  IN \A n \in 0..Len(hist) :
       YankedThenPasted(n) /\ PasteAfterStep =>
         /\ n = 0 => yankBuffer = <<lines[i + 1]>>
         /\ Len(yankBuffer) = 1
         /\ lines' = SubSeq(lines, 1, i + 1) \o yankBuffer \o SubSeq(lines, i + 2, Len(lines))
         /\ yankBuffer' = yankBuffer

C7_YankThenPaste == [][C7_Step]_vars

\* j y y p on a buffer whose second line differs from its neighbours
C7_Witness ==
  LET init == InitLines(initialContent)
  IN /\ Len(init) = 3 /\ init[2] # init[1] /\ init[2] # init[3]
     /\ hist = <<NormalEv("j"), NormalEv("y"), NormalEv("y"), NormalEv("p")>>
     /\ lines = <<init[1], init[2], init[2], init[3]>>
     /\ yankBuffer = <<init[2]>>

\* ------------------------------------------------------------------------
\* C11: for the ex-commands wq and x the save collaborator is invoked with
\* the buffer content, and has returned, before the exit collaborator is
\* invoked: the submit saves and does not exit, and the deferred exit only
\* runs after a save.
C11_Step ==
  /\ (SubmitStep(<<"w", "q">>) \/ SubmitStep(<<"x">>)) =>
       /\ saved' = <<Join(lines, <<NL>>)>>
       /\ exits' = exits
       /\ exitTimers' = exitTimers + 1
  /\ (exits' > exits /\ ~CommandSubmit) => saved # <<>>
  /\ exitTimers > 0 => saved # <<>>

C11_SaveBeforeExit == [][C11_Step]_vars

\* wq was submitted after a change of the text, the buffer was saved and the
\* deferred exit has closed the editor
C11_Witness ==
  /\ session = "closed" /\ exits = 1 /\ exitTimers = 0
  /\ mode = "command" /\ modified
  /\ saved = <<Join(lines, <<NL>>)>>

\* ------------------------------------------------------------------------
\* C12: once wq or x is submitted (its timer is pending) the exit
\* collaborator is eventually invoked, whatever is handled in the meantime.
C12_ExitFollows ==
  \A n \in 0..MaxQuitSteps : (exitTimers > 0 /\ exits = n) ~> (exits > n)

\* the deferred exit ran although q! had already closed the editor
C12_Witness == exits = 2 /\ exitTimers = 0 /\ session = "closed"

\* ------------------------------------------------------------------------
\* C13: Escape in any mode ends in Normal mode with the pending operator
\* cleared, the count prefix empty and the command-line text empty, and
\* changes nothing else but the column on leaving Insert mode.
EscapeStep ==
  \/ NormalKey(Ev("Escape")) \/ InsertKey(Ev("Escape"))
  \/ VisualKey(Ev("Escape")) \/ ReplaceKey(Ev("Escape"))
  \/ CommandEscape

C13_Step ==
  EscapeStep =>
    /\ mode' = "normal"
    /\ lastCommand' = ""
    /\ numberBuffer' = <<>>
    /\ commandBuffer' = <<>>
    /\ lines' = lines /\ yankBuffer' = yankBuffer /\ modified' = modified
    /\ cursor'.line = cursor.line
    /\ mode # "insert" => cursor' = cursor

C13_EscapeResets == [][C13_Step]_vars

\* ------------------------------------------------------------------------
\* C14: the whole-line forms dd, yy, cc and gg run only when the same key is
\* pressed twice in a row: a press of d, y, c or g that does not directly
\* follow a press of the same key only starts a pending operator.
DoubledKeys == {"d", "y", "c", "g"}

FollowsSameKey(k) == hist # <<>> /\ hist[Len(hist)] = NormalEv(k)

C14_Step ==
  \A k \in DoubledKeys :
    (NormalKey(Ev(k)) /\ ~FollowsSameKey(k)) =>
      /\ lines' = lines /\ yankBuffer' = yankBuffer
      /\ cursor' = cursor /\ mode' = mode
      /\ lastCommand' = k

C14_DoubledKeysAreConsecutive == [][C14_Step]_vars

\* ------------------------------------------------------------------------
\* C15: r followed by a printable key k replaces exactly the character under
\* the cursor with k and changes neither the other characters, the other
\* lines, the cursor nor the mode, and clears the pending r; also when k is a
\* Normal-mode command key.
PrintableKeys == {e \in NormalKeys : IsCharKey(e.key)}

ReplacedAt(ls, pos, k) ==
  [ls EXCEPT ![pos.line + 1] = [@ EXCEPT ![pos.col + 1] = k]]

C15_Step ==
  \A e \in PrintableKeys :
    (/\ lastCommand = "r"
     /\ cursor.line < Len(lines) /\ cursor.col >= 0 /\ cursor.col < CursorLineLen
     /\ NormalKey(e)) =>
      /\ lines' = ReplacedAt(lines, cursor, e.key)
      /\ cursor' = cursor
      /\ mode' = "normal"
      /\ lastCommand' = ""

C15_ReplaceChar == [][C15_Step]_vars

\* ------------------------------------------------------------------------
\* C16: with a non-empty register and the cursor on line i, p puts the
\* register lines right after line i and the cursor at (i+1, 0); P puts them
\* right before line i and the cursor at (i, 0).
PastedAt(ls, at, reg) == SubSeq(ls, 1, at) \o reg \o SubSeq(ls, at + 1, Len(ls))

C16_Step ==
  (yankBuffer # <<>> /\ cursor.line < Len(lines)) =>
    /\ NormalKey(Ev("p")) =>
         /\ lines' = PastedAt(lines, cursor.line + 1, yankBuffer)
         /\ cursor' = Pos(cursor.line + 1, 0)
    /\ NormalKey(Ev("P")) =>
         /\ lines' = PastedAt(lines, cursor.line, yankBuffer)
         /\ cursor' = Pos(cursor.line, 0)

C16_PasteCursor == [][C16_Step]_vars

\* ------------------------------------------------------------------------
\* C17: from Normal mode a key leads to Insert mode exactly when it is one of
\* i, I, a, A, o, O, s, S, C or a c pressed while a c is pending, to Visual
\* mode exactly on v or V, to the command line exactly on : or /, to Replace
\* mode exactly on R, and every other key leaves the mode Normal; from
\* Insert, Visual, Replace and the command line Escape leads to Normal.
ModeAfter(k, toInsert) ==
  IF k \in toInsert \/ (k = "c" /\ lastCommand = "c") THEN "insert"
  ELSE IF k \in {"v", "V"} THEN "visual"
  ELSE IF k \in {":", "/"} THEN "command"
  ELSE IF k = "R" THEN "replace"
  ELSE "normal"

ModeStep(toInsert) ==
  /\ \A e \in ModeKeys : NormalKey(e) => mode' = ModeAfter(e.key, toInsert)
  /\ (mode # "normal" /\ EscapeStep) => mode' = "normal"

C17_ModeTransitions ==
  [][ModeStep({"i", "I", "a", "A", "o", "O", "s", "S", "C"})]_vars

\* C in Normal mode has led to Insert mode
C17_Witness ==
  /\ hist = <<NormalEv("C")>>
  /\ mode = "insert" /\ modified

\* C17 as it is stated: C is not among the keys that lead to Insert mode
C17_AsStated ==
  [][ModeStep({"i", "I", "a", "A", "o", "O", "s", "S"})]_vars

\* ------------------------------------------------------------------------
\* C18: an ex-command that is a pure integer N puts the cursor on line
\* clamp(N-1, 0, len(buffer)-1) at column 0, leaves buffer, register and
\* modified flag unchanged and returns to Normal mode.
SubmittedTexts == {Trim(t) : t \in CmdTexts}

IsPureInteger(t) == t # <<>> /\ \A i \in 1..Len(t) : IsDigit(t[i])

C18_Step ==
  \A t \in SubmittedTexts :
    (IsPureInteger(t) /\ SubmitStep(t)) =>
      /\ cursor' = Pos(Max(0, Min(DigitsVal(t, 0) - 1, Len(lines) - 1)), 0)
      /\ lines' = lines /\ yankBuffer' = yankBuffer /\ modified' = modified
      /\ mode' = "normal"

C18_LineJump == [][C18_Step]_vars

\* a jump beyond the end of a buffer of three or more lines has put the
\* cursor on the last line
C18_Witness ==
  /\ hist = <<[m |-> "command", k |-> "@submit"]>>
  /\ searchPattern = <<>>
  /\ Len(lines) >= 3 /\ cursor = Pos(Len(lines) - 1, 0)
  /\ mode = "normal"

\* ------------------------------------------------------------------------
\* C19: a command text that is no pure integer and none of w, q, q!, wq, x,
\* wq!, /pattern, ?pattern, s/../../, %s/../../, set nu, set number,
\* set nonu, set nonumber is reported as "E492: Not an editor command:
\* <input>", with buffer and cursor unchanged and the mode Normal.
IsSubstitute(t, prefix) ==
  StartsWith(t, prefix) /\ Len(Split(t, <<"/">>)) >= 3

IsKnownCommand(t) ==
  \/ t \in {<<"w">>, <<"q">>, <<"q", "!">>, <<"w", "q">>, <<"x">>, <<"w", "q", "!">>}
  \/ StartsWith(t, <<"/">>) \/ StartsWith(t, <<"?">>)
  \/ IsSubstitute(t, <<"s", "/">>) \/ IsSubstitute(t, <<"%", "s", "/">>)
  \/ t \in {<<"s", "e", "t", " ", "n", "u">>,
            <<"s", "e", "t", " ", "n", "u", "m", "b", "e", "r">>,
            <<"s", "e", "t", " ", "n", "o", "n", "u">>,
            <<"s", "e", "t", " ", "n", "o", "n", "u", "m", "b", "e", "r">>}

C19_Step ==
  \A t \in SubmittedTexts :
    (~IsPureInteger(t) /\ ~IsKnownCommand(t) /\ SubmitStep(t)) =>
      /\ statusMessage' = Msg("E492: Not an editor command: ", 0, t)
      /\ lines' = lines /\ cursor' = cursor
      /\ mode' = "normal"

C19_UnknownCommandReported == [][C19_Step]_vars

\* ------------------------------------------------------------------------
\* C20: /pattern with a non-empty pattern, and n with the stored pattern,
\* put the cursor on the first occurrence of the pattern strictly after the
\* cursor in document order, and leave the cursor where it is when there is
\* none (no wrap to the start); /pattern stores the pattern for n.
OccursAt(ls, l, k, pat) ==
  k + Len(pat) <= Len(ls[l + 1]) /\ SubSeq(ls[l + 1], k + 1, k + Len(pat)) = pat

Before(p, q) == p.line < q.line \/ (p.line = q.line /\ p.col < q.col)

OccurrencesAfter(pat) ==
  UNION {{Pos(l, k) : k \in {j \in 0..Len(lines[l + 1]) :
                               OccursAt(lines, l, j, pat) /\ Before(cursor, Pos(l, j))}}
           : l \in 0..(Len(lines) - 1)}

FirstAfter(pat) ==
  IF OccurrencesAfter(pat) = {} THEN cursor
  ELSE CHOOSE p \in OccurrencesAfter(pat) :
         \A q \in OccurrencesAfter(pat) : q = p \/ Before(p, q)

C20_Step ==
  /\ \A t \in SubmittedTexts :
       (StartsWith(t, <<"/">>) /\ Len(t) > 1 /\ SubmitStep(t)) =>
         /\ cursor' = FirstAfter(SliceFrom(t, 1))
         /\ searchPattern' = SliceFrom(t, 1)
  /\ (searchPattern # <<>> /\ NormalKey(Ev("n"))) =>
       /\ cursor' = FirstAfter(searchPattern)
       /\ searchPattern' = searchPattern

C20_ForwardSearch == [][C20_Step]_vars

\* /e has found the second e of "eee" and n the third
C20_Witness ==
  /\ hist = <<NormalEv("n")>>
  /\ initialContent = <<"e", "e", "e">>
  /\ searchPattern = <<"e">>
  /\ cursor = Pos(0, 2)

\* ------------------------------------------------------------------------
\* C21: s/old/new/ replaces the first occurrence of old on the cursor line
\* and s/old/new/g every occurrence, leaves the other lines unchanged, and
\* reports "1 substitution" when old occurs on the line and "Pattern not
\* found" exactly when it does not.
OccursIn(line, k, pat) ==
  k + Len(pat) <= Len(line) /\ SubSeq(line, k + 1, k + Len(pat)) = pat

HasOccurrence(line, pat) == \E k \in 0..Len(line) : OccursIn(line, k, pat)

FirstOccurrence(line, pat) ==
  CHOOSE k \in 0..Len(line) :
    OccursIn(line, k, pat) /\ \A j \in 0..(k - 1) : ~OccursIn(line, j, pat)

ReplacedFirst(line, old, new) ==
  IF ~HasOccurrence(line, old) THEN line
  ELSE LET k == FirstOccurrence(line, old)
       IN SubSeq(line, 1, k) \o new \o SubSeq(line, k + Len(old) + 1, Len(line))

\* old is not empty
RECURSIVE ReplacedAll(_, _, _)
ReplacedAll(line, old, new) ==
  IF ~HasOccurrence(line, old) THEN line
  ELSE LET k == FirstOccurrence(line, old)
       IN SubSeq(line, 1, k) \o new
            \o ReplacedAll(SubSeq(line, k + Len(old) + 1, Len(line)), old, new)

SubstituteCases ==
  {[text |-> <<"s", "/", "e", "/", " ", "/">>,
    old |-> <<"e">>, new |-> <<" ">>, all |-> FALSE],
   [text |-> <<"s", "/", "e", "/", " ", "/", "g">>,
    old |-> <<"e">>, new |-> <<" ">>, all |-> TRUE],
   [text |-> <<"s", "/", "e", "/", "e", "/">>,
    old |-> <<"e">>, new |-> <<"e">>, all |-> FALSE],
   [text |-> <<"s", "/", "e", "e", "/", " ", "/", "g">>,
    old |-> <<"e", "e">>, new |-> <<" ">>, all |-> TRUE]}

SubstituteResult(line, cs) ==
  IF cs.all THEN ReplacedAll(line, cs.old, cs.new)
  ELSE ReplacedFirst(line, cs.old, cs.new)

C21_Step ==
  \A cs \in SubstituteCases :
    (cursor.line < Len(lines) /\ SubmitStep(cs.text)) =>
      /\ lines' = [lines EXCEPT ![cursor.line + 1] = SubstituteResult(@, cs)]
      /\ statusMessage' =
           IF HasOccurrence(lines[cursor.line + 1], cs.old)
             THEN Msg("1 substitution", 0, <<>>)
             ELSE Msg("Pattern not found", 0, <<>>)

C21_SubstituteOnLine == [][C21_Step]_vars

\* ------------------------------------------------------------------------
\* C28: %s/old/new/ (with or without g) replaces every line by what the s
\* rule gives for it, leaves the number of lines and the cursor unchanged,
\* and reports as count the number of lines whose text changed.
GlobalCases ==
  {[text |-> <<"%", "s", "/", "e", "/", " ", "/">>,
    old |-> <<"e">>, new |-> <<" ">>, all |-> FALSE],
   [text |-> <<"%", "s", "/", "e", "/", " ", "/", "g">>,
    old |-> <<"e">>, new |-> <<" ">>, all |-> TRUE]}

C28_Step ==
  \A cs \in GlobalCases :
    SubmitStep(cs.text) =>
      /\ lines' = [i \in 1..Len(lines) |-> SubstituteResult(lines[i], cs)]
      /\ cursor' = cursor
      /\ statusMessage' =
           Msg("substitutions",
               Cardinality({i \in 1..Len(lines) : lines'[i] # lines[i]}), <<>>)

C28_GlobalSubstitute == [][C28_Step]_vars

\* ------------------------------------------------------------------------
\* C22: in Visual mode with anchor line a and cursor line c, d or x removes
\* exactly the lines min(a,c)..max(a,c) into the register (one empty line is
\* left when every line was selected), puts the cursor at column 0 of the
\* start of the removed range, on a line of the resulting buffer, and
\* returns to Normal mode; y copies that range into the register, changes
\* neither buffer nor modified flag and returns to Normal mode.
SelectionStart == Min(visualStart[1].line, cursor.line)
SelectionEnd == Max(visualStart[1].line, cursor.line)

C22_Step ==
  (mode = "visual" /\ visualStart # <<>> /\ SelectionEnd < Len(lines)) =>
    /\ VisualDeleteStep =>
         /\ yankBuffer' = SubSeq(lines, SelectionStart + 1, SelectionEnd + 1)
         /\ lines' = OneEmptyIfNone(Without(lines, SelectionStart, SelectionEnd + 1))
         /\ cursor' = Pos(Min(SelectionStart, Len(lines') - 1), 0)
         /\ mode' = "normal"
    /\ VisualYankStep =>
         /\ yankBuffer' = SubSeq(lines, SelectionStart + 1, SelectionEnd + 1)
         /\ lines' = lines /\ modified' = modified
         /\ mode' = "normal"

C22_VisualDeleteYank == [][C22_Step]_vars

\* ------------------------------------------------------------------------
\* C23: q calls the exit collaborator if and only if the modified flag is
\* false and q! always calls it; the flag is true after every change of the
\* text and false after w, so q exits after w and is refused after a change
\* that no w followed.
ExitCalled == exits' = exits + 1 /\ session' = "closed"

C23_Step ==
  /\ SubmitStep(<<"q">>) =>
       /\ ~modified => ExitCalled
       /\ modified => (exits' = exits /\ session' = session)
  /\ SubmitStep(<<"q", "!">>) => ExitCalled
  /\ lines' # lines => modified'
  /\ SubmitStep(<<"w">>) => ~modified'
  /\ (modified /\ ~modified') => SubmitStep(<<"w">>)

OnCharacter ==
  cursor.line < Len(lines) /\ cursor.col >= 0 /\ cursor.col < CursorLineLen

C24_Step ==
  /\ (cursor.line < Len(lines)
        /\ ((lastCommand = "c" /\ NormalKey(Ev("c"))) \/ NormalKey(Ev("S")))) =>
       /\ yankBuffer' = <<lines[cursor.line + 1]>>
       /\ mode' = "insert" /\ modified'
  /\ (OnCharacter /\ NormalKey(Ev("s"))) =>
       /\ yankBuffer' = <<<<lines[cursor.line + 1][cursor.col + 1]>>>>
       /\ mode' = "insert" /\ modified'

C24_ChangeFillsRegister == [][C24_Step]_vars

\* ------------------------------------------------------------------------
\* C25: when the write of a save fails, the editor does not report the file
\* as written and does not clear the modified flag.
C25_Step ==
  (SubmitStep(<<"w">>) /\ ~writable) =>
    /\ modified' = modified
    /\ statusMessage'.tag # "written"

C26_Step ==
  SubmitStep(<<"/">>) =>
    /\ statusMessage' # NoMsg
    /\ statusMessage' # Msg("/", 0, <<>>)
    /\ mode' = "normal"
    /\ lines' = lines /\ cursor' = cursor

C26_EmptySearchReported == [][C26_Step]_vars

\* ------------------------------------------------------------------------
\* C27: undo (u), redo (Ctrl+R) and backward search (?pattern) each post a
\* "not yet implemented" message and leave buffer, cursor, register and
\* pending operator unchanged; none is ignored or taken as another command.
StubLeavesState ==
  /\ lines' = lines /\ cursor' = cursor
  /\ yankBuffer' = yankBuffer /\ lastCommand' = lastCommand

C27_Step ==
  /\ NormalKey(Ev("u")) =>
       (statusMessage' = Msg("Undo not yet implemented", 0, <<>>) /\ StubLeavesState)
  /\ NormalKey(Ctrl("r")) =>
       (statusMessage' = Msg("Redo not yet implemented", 0, <<>>) /\ StubLeavesState)
  /\ SubmitStep(<<"?", "e">>) =>
       (statusMessage' = Msg("Backward search not yet implemented", 0, <<>>)
          /\ StubLeavesState)

C27_StubsReported == [][C27_Step]_vars

\* ------------------------------------------------------------------------
\* C29: ^ and the cursor placement of I put the column on the first
\* character of the cursor line that is no whitespace, or on the line end
\* max(lineLength-1, 0) when the line is empty or all whitespace; the column
\* is never negative.
FirstNonBlank(line) ==
  IF \E k \in 1..Len(line) : ~IsWs(line[k])
    THEN (CHOOSE k \in 1..Len(line) :
            ~IsWs(line[k]) /\ \A j \in 1..(k - 1) : IsWs(line[j])) - 1
    ELSE Max(Len(line) - 1, 0)

C29_Step ==
  (cursor.line < Len(lines) /\ (NormalKey(Ev("^")) \/ NormalKey(Ev("I")))) =>
    /\ cursor'.col = FirstNonBlank(lines[cursor.line + 1])
    /\ cursor'.col >= 0
    /\ cursor'.line = cursor.line

C29_FirstNonBlank == [][C29_Step]_vars

\* ------------------------------------------------------------------------
\* C30: w from (l, c) moves to the start of the next whitespace-delimited
\* token of line l after the cursor when there is one, otherwise to
\* (l+1, 0) when l is not the last line, otherwise nowhere; it never moves
\* backwards.
TokenStarts(line) ==
  {k \in 0..(Len(line) - 1) :
     ~IsWs(line[k + 1]) /\ (k = 0 \/ IsWs(line[k]))}

WordForwardTarget ==
  LET later == {k \in TokenStarts(lines[cursor.line + 1]) : k > cursor.col}
  IN IF later # {}
       THEN Pos(cursor.line, CHOOSE k \in later : \A j \in later : k <= j)
     ELSE IF cursor.line < Len(lines) - 1 THEN Pos(cursor.line + 1, 0)
     ELSE cursor

C30_Step ==
  (numberBuffer = <<>> /\ cursor.line < Len(lines) /\ cursor.col >= 0
     /\ NormalKey(Ev("w"))) =>
    cursor' = WordForwardTarget

C30_WordForward == [][C30_Step]_vars

\* ------------------------------------------------------------------------
\* C31: J on a cursor line i that is not the last line replaces line i by
\* line i, one blank when line i is not empty (none when it is empty), and
\* line i+1 without its leading whitespace; it removes line i+1 and leaves
\* the other lines and the cursor unchanged.  J on the last line changes
\* nothing.
WithoutLeadingBlanks(line) ==
  IF \A k \in 1..Len(line) : IsWs(line[k]) THEN <<>>
  ELSE LET first == CHOOSE k \in 1..Len(line) :
                      ~IsWs(line[k]) /\ \A j \in 1..(k - 1) : IsWs(line[j])
       IN SubSeq(line, first, Len(line))

Joined(i, always) ==
  lines[i + 1] \o (IF always \/ lines[i + 1] # <<>> THEN <<" ">> ELSE <<>>)
    \o WithoutLeadingBlanks(lines[i + 2])

JoinStep(always) ==
  NormalKey(Ev("J")) =>
    IF cursor.line < Len(lines) - 1
      THEN /\ lines' = SubSeq(lines, 1, cursor.line)
                         \o <<Joined(cursor.line, always)>>
                         \o SubSeq(lines, cursor.line + 3, Len(lines))
           /\ cursor' = cursor
      ELSE /\ lines' = lines /\ cursor' = cursor
           /\ modified' = modified /\ yankBuffer' = yankBuffer

C31_Join == [][JoinStep(FALSE)]_vars

\* J has joined two lines that are not empty, with one blank between them
C31_Witness ==
  /\ hist = <<NormalEv("J")>>
  /\ modified
  /\ \E i \in 1..Len(lines) : \E k \in 2..(Len(lines[i]) - 1) :
       /\ lines[i][k] = " "
       /\ ~IsWs(lines[i][k - 1]) /\ ~IsWs(lines[i][k + 1])

\* C31 as it is stated: exactly one blank in every join
C31_AsStated == [][JoinStep(TRUE)]_vars

\* ------------------------------------------------------------------------
\* C32: an operation at a buffer edge where it has nothing to act on (J on
\* the last line, Backspace at (0,0) in Insert mode, x on an empty last
\* line, p or P with an empty register, h at column 0, k on the first line,
\* j on the last line) leaves buffer, cursor, register and modified flag
\* unchanged.
OnLastLine == cursor.line = Len(lines) - 1

EdgeStep ==
  \/ OnLastLine /\ NormalKey(Ev("J"))
  \/ cursor = Pos(0, 0) /\ InsertKey(Ev("Backspace"))
  \/ OnLastLine /\ lines[cursor.line + 1] = <<>> /\ NormalKey(Ev("x"))
  \/ yankBuffer = <<>> /\ (NormalKey(Ev("p")) \/ NormalKey(Ev("P")))
  \/ cursor.col = 0 /\ NormalKey(Ev("h"))
  \/ cursor.line = 0 /\ NormalKey(Ev("k"))
  \/ OnLastLine /\ NormalKey(Ev("j"))

C32_Step ==
  EdgeStep =>
    /\ lines' = lines /\ cursor' = cursor
    /\ yankBuffer' = yankBuffer /\ modified' = modified

C32_BoundaryNoop == [][C32_Step]_vars

\* ------------------------------------------------------------------------
\* C33: a motion key in Normal or Visual mode (h, j, k, l, the arrows, 0, $,
\* ^, w, b, gg, G, n, N) leaves buffer, register, modified flag and mode
\* unchanged, and h and l never change the cursor line.
MotionKeys ==
  {"h", "j", "k", "l", "ArrowLeft", "ArrowDown", "ArrowUp", "ArrowRight",
   "0", "$", "^", "w", "b", "g", "G", "n", "N"}

MotionStep(e) == NormalKey(e) \/ VisualKey(e)

C33_Step ==
  \A k \in MotionKeys :
    MotionStep(Ev(k)) =>
      /\ lines' = lines /\ yankBuffer' = yankBuffer
      /\ modified' = modified /\ mode' = mode
      /\ k \in {"h", "l", "ArrowLeft", "ArrowRight"} => cursor'.line = cursor.line

C33_MotionsMoveOnlyCursor == [][C33_Step]_vars

\* ------------------------------------------------------------------------
\* C35: the Visual anchor exists exactly while the mode is Visual, and while
\* it exists its line is a line of the buffer.
C35_AnchorIffVisual ==
  /\ (visualStart # <<>>) <=> (mode = "visual")
  /\ visualStart # <<>> =>
       (visualStart[1].line >= 0 /\ visualStart[1].line < Len(lines))

\* ------------------------------------------------------------------------
\* C34: an ex-command that changes no line text (a substitution that
\* matches nothing or replaces a text by itself, a line jump, a search,
\* set nu, an unknown command) leaves the modified flag unchanged.
C34_Step ==
  (CommandSubmit /\ Trim(commandBuffer) # <<"w">> /\ lines' = lines) =>
    modified' = modified

C34_UnchangedTextKeepsFlag == [][C34_Step]_vars

\* ------------------------------------------------------------------------
\* C36: for each key of h, j, k, l, w, b, x, X a count n followed by the key
\* gives the buffer and the cursor that n presses of the key without a count
\* give, each press handled and rendered before the next; the column never
\* falls below 0.
RepeatableKeys == {"h", "j", "k", "l", "w", "b", "x", "X"}

\* the state after the key is pressed twice without a count
PressedTwice(k) ==
  handleNormalModeKey(
    handleNormalModeKey([Cur EXCEPT !.numberBuffer = <<>>], Ev(k)), Ev(k))

C36_Step ==
  \A k \in RepeatableKeys :
    (numberBuffer = <<"2">> /\ NormalKey(Ev(k))) =>
      /\ lines' = PressedTwice(k).lines
      /\ cursor' = PressedTwice(k).cursor
      /\ cursor'.col >= 0 \/ cursor.col < 0

C36_CountIsRepetition == [][C36_Step]_vars

\* ------------------------------------------------------------------------
\* C37: in one session onExit is called at most once, and after it has been
\* called neither onSave nor onExit is called again.
C37_Step ==
  /\ exits' <= 1
  /\ exits >= 1 => (exits' = exits /\ saved' = saved)

C37_ExitAtMostOnce == [][C37_Step]_vars

\* ------------------------------------------------------------------------
\* C39: in Insert mode a key that inserts text leaves the cursor right after
\* the inserted text: one column further for a printable character, two for
\* Tab, column 0 of the new line for Enter.
C39_Step ==
  /\ InsertKey(Ev("e")) => cursor' = Pos(cursor.line, cursor.col + 1)
  /\ InsertKey(Ev("Tab")) => cursor' = Pos(cursor.line, cursor.col + 2)
  /\ InsertKey(Ev("Enter")) => cursor' = Pos(cursor.line + 1, 0)

C39_CursorAfterInsertedText == [][C39_Step]_vars

\* ------------------------------------------------------------------------
\* C40: a status message stays for its own duration: the timer of an
\* earlier message never clears a later one, and the E37 message, posted
\* with duration 0, stays until the next message is posted.
\* (All timed messages have the same duration, so the timers run out in the
\* order they were set: the timer of the message on display is the last.)
HasOwnTimer ==
  /\ statusMessage # NoMsg
  /\ statusMessage.tag # "E37: No write since last change (add ! to override)"
  /\ statusTimers = 1

C40_Step ==
  StatusTimerFire => (statusMessage' = statusMessage \/ HasOwnTimer)

C40_MessageKeepsItsDuration == [][C40_Step]_vars

\* ------------------------------------------------------------------------
\* C38: in Insert mode with the cursor at a valid position, a printable
\* character followed at once by Backspace, and Enter followed at once by
\* Backspace, give back the buffer and the cursor of before the two keys.
ValidInsertCursor ==
  /\ cursor.line >= 0 /\ cursor.line < Len(lines)
  /\ cursor.col >= 0 /\ cursor.col <= Len(lines[cursor.line + 1])

\* the state after key k and then Backspace, each handled on the state the
\* render after the key before it shows
ThenBackspace(k) ==
  handleKeyDown(handleKeyDown(Cur, Ev(k)), Ev("Backspace"))

C38_TypeThenBackspace ==
  (session = "open" /\ mode = "insert" /\ ValidInsertCursor) =>
    \A k \in {"e", " ", "Enter"} :
      /\ ThenBackspace(k).lines = lines
      /\ ThenBackspace(k).cursor = cursor
      /\ ThenBackspace(k).mode = "insert"

\* Enter inside a line and then Backspace have been typed
C38_Witness ==
  /\ hist = <<[m |-> "insert", k |-> "Enter"], [m |-> "insert", k |-> "Backspace"]>>
  /\ mode = "insert" /\ ValidInsertCursor
  /\ cursor.col > 0 /\ cursor.col < Len(lines[cursor.line + 1])


====
